---- MODULE Spec2Model ----
(***************************************************************************)
(* Model of app.py: the Streamlit habit tracker.  One run of the script    *)
(* (a render cycle) is a walk of pc from "init" to "display"; the session  *)
(* state (history, last_weather, last_dog, last_report) survives from one  *)
(* run to the next.  The calendar (clock) is the environment: it may       *)
(* advance between any two steps, so every date.today() is its own read.   *)
(***************************************************************************)
EXTENDS Integers, Sequences, FiniteSets, TLC

VARIABLES
    clock,          \* the calendar date, as a day count from Epoch
    pc,             \* position of the script run
    hasHistory,     \* "history" in st.session_state
    history,        \* st.session_state.history: a list of references
    heap,           \* the dict objects the references denote
    today_entry,    \* module-level today_entry: a reference (0 before it is bound)
    mood,           \* local mood (0 before the slider is read)
    checked_count,  \* local checked_count (-1 before it is computed)
    achievement,    \* local achievement (-1 before it is computed)
    chart,          \* df[["date", "achievement_pct"]] handed to st.bar_chart
    generate,       \* the value st.button returned in this run
    last_weather, last_dog, last_report,   \* st.session_state.last_*
    rin,            \* generate_report under test: the arguments and what the provider will do
    rout            \* generate_report under test: what it returned and which APIs it contacted

vars == <<clock, pc, hasHistory, history, heap, today_entry, mood, checked_count,
          achievement, chart, generate, last_weather, last_dog, last_report, rin, rout>>

ledgerVars == <<hasHistory, history, heap>>
localVars == <<today_entry, mood, checked_count, achievement, chart, generate>>
lastVars == <<last_weather, last_dog, last_report>>
reportVars == <<rin, rout>>

None == [tag |-> "None"]

----------------------------------------------------------------------------
(* Bounds of the model *)

\* how many times midnight passes during the session
MaxTicks == 1
\* the day (counted from Epoch) on which the session opens
StartDay == 6
\* longest text a provider returns
MaxTextLen == 2

\* the calendar date of day 0; the session crosses a year end
Epoch == <<2023, 12, 25>>

----------------------------------------------------------------------------
(* Program constants *)

HABITS == <<"wake", "water", "study", "workout", "sleep">>
CITIES == <<"Seoul", "Busan", "Incheon", "Daegu", "Daejeon", "Gwangju", "Ulsan", "Suwon", "Jeju", "Gimhae">>
RetentionWindow == 7
DefaultMood == 6
MoodMin == 1
MoodMax == 10

HabitKeys == {HABITS[i] : i \in 1..Len(HABITS)}
Fields == {"date", "mood"} \cup HabitKeys

HabitIndex(key) == CHOOSE i \in 1..Len(HABITS) : HABITS[i] = key

----------------------------------------------------------------------------
(* datetime.date: today(), timedelta arithmetic and isoformat() *)

IsLeap(y) == (y % 4 = 0 /\ y % 100 # 0) \/ y % 400 = 0

DaysInMonth(y, m) ==
    IF m = 2 THEN (IF IsLeap(y) THEN 29 ELSE 28)
    ELSE IF m \in {4, 6, 9, 11} THEN 30 ELSE 31

NextDate(ymd) ==
    LET y == ymd[1]
        m == ymd[2]
        d == ymd[3]
    IN  IF d < DaysInMonth(y, m) THEN <<y, m, d + 1>>
        ELSE IF m < 12 THEN <<y, m + 1, 1>>
        ELSE <<y + 1, 1, 1>>

RECURSIVE AddDays(_, _)
AddDays(ymd, n) == IF n = 0 THEN ymd ELSE AddDays(NextDate(ymd), n - 1)

\* date.isoformat(): the YYYY-MM-DD rendering, kept as its three fields
isoformat(day) == AddDays(Epoch, day)

\* comparison of two ISO date strings
DateLeq(a, b) ==
    \/ a[1] < b[1]
    \/ a[1] = b[1] /\ a[2] < b[2]
    \/ a[1] = b[1] /\ a[2] = b[2] /\ a[3] <= b[3]

\* pd.to_datetime(...).dt.strftime("%m/%d")
strftime_md(iso) == <<iso[2], iso[3]>>

----------------------------------------------------------------------------
(* Entries *)

bool(c) == c # 0

\* {"date": d, "mood": m} followed by entry[key] = ... for every habit key
MakeEntry(d, m, checks) ==
    [f \in Fields |->
        IF f = "date" THEN d
        ELSE IF f = "mood" THEN m
        ELSE checks[HabitIndex(f)]]

AllFalse == [i \in 1..Len(HABITS) |-> FALSE]

patterns == <<
    << <<1, 1, 0, 0, 1>>, 6 >>,
    << <<1, 0, 1, 0, 1>>, 7 >>,
    << <<1, 1, 1, 0, 0>>, 5 >>,
    << <<0, 1, 1, 1, 0>>, 8 >>,
    << <<1, 1, 1, 1, 0>>, 9 >>,
    << <<0, 0, 1, 1, 1>>, 7 >> >>

\* variant: the table is read from its end, patterns[i - 1]
DemoEntry_reversed(today, i) ==
    LET row == patterns[i]
    IN  MakeEntry(isoformat(today - i), row[2],
                  [k \in 1..Len(HABITS) |-> bool(row[1][k])])

\* one pass of "for i in range(6, 0, -1)": patterns[6 - i] is 0-based
DemoEntry(today, i) ==
    LET row == patterns[(6 - i) + 1]
    IN  MakeEntry(isoformat(today - i), row[2],
                  [k \in 1..Len(HABITS) |-> bool(row[1][k])])

\* variant: demo.insert(0, entry) in place of demo.append(entry)
RECURSIVE DemoLoop_newest_first(_, _)
DemoLoop_newest_first(today, i) ==
    IF i = 0 THEN <<>>
    ELSE DemoLoop_newest_first(today, i - 1) \o <<DemoEntry(today, i)>>

RECURSIVE DemoLoop(_, _)
DemoLoop(today, i) ==
    IF i = 0 THEN <<>> ELSE <<DemoEntry(today, i)>> \o DemoLoop(today, i - 1)

_init_demo_history(today) ==
    DemoLoop(today, 6) \o <<MakeEntry(isoformat(today), DefaultMood, AllFalse)>>

----------------------------------------------------------------------------
(* Lists of references *)

\* variant: history[:7]
FirstN(s, n) == IF Len(s) <= n THEN s ELSE SubSeq(s, 1, n)

\* history[-7:]
LastN(s, n) == IF Len(s) <= n THEN s ELSE SubSeq(s, Len(s) - n + 1, Len(s))

Range(s) == {s[i] : i \in 1..Len(s)}

\* a reference no live object uses
FreshRef(hp) == CHOOSE r \in 1..(Cardinality(DOMAIN hp) + 1) : r \notin DOMAIN hp

\* objects no longer referenced are dropped
Collect(hp, hist, keep) == [r \in (Range(hist) \cup keep) \cap DOMAIN hp |-> hp[r]]

\* index of the first entry whose date is today_str, 0 when there is none
FirstIndex(hist, hp, today_str) ==
    IF \E i \in 1..Len(hist) : hp[hist[i]]["date"] = today_str
    THEN CHOOSE i \in 1..Len(hist) :
            /\ hp[hist[i]]["date"] = today_str
            /\ \A j \in 1..(i - 1) : hp[hist[j]]["date"] # today_str
    ELSE 0

----------------------------------------------------------------------------
(* The ledger operations *)

\* variant: the trim to the last 7 is missing
_get_today_entry_untrimmed(hist, hp, today_str) ==
    LET i == FirstIndex(hist, hp, today_str)
    IN  IF i # 0
        THEN [history |-> hist, heap |-> hp, entry |-> hist[i]]
        ELSE LET r == FreshRef(hp)
                 hp2 == [x \in DOMAIN hp \cup {r} |->
                            IF x = r THEN MakeEntry(today_str, DefaultMood, AllFalse)
                            ELSE hp[x]]
                 hist2 == Append(hist, r)
             IN  [history |-> hist2, heap |-> Collect(hp2, hist2, {r}), entry |-> r]

\* variant: the lookup is missing, an entry is created on every call
_get_today_entry_always_new(hist, hp, today_str) ==
    LET r == FreshRef(hp)
        hp2 == [x \in DOMAIN hp \cup {r} |->
                   IF x = r THEN MakeEntry(today_str, DefaultMood, AllFalse)
                   ELSE hp[x]]
        hist2 == LastN(Append(hist, r), RetentionWindow)
    IN  [history |-> hist2, heap |-> Collect(hp2, hist2, {r}), entry |-> r]

_get_today_entry(hist, hp, today_str) ==
    LET i == FirstIndex(hist, hp, today_str)
    IN  IF i # 0
        THEN [history |-> hist, heap |-> hp, entry |-> hist[i]]
        ELSE LET r == FreshRef(hp)
                 hp2 == [x \in DOMAIN hp \cup {r} |->
                            IF x = r THEN MakeEntry(today_str, DefaultMood, AllFalse)
                            ELSE hp[x]]
                 hist2 == LastN(Append(hist, r), RetentionWindow)
             IN  [history |-> hist2, heap |-> Collect(hp2, hist2, {r}), entry |-> r]

_save_today(hist, hp, entry, today_str) ==
    LET i == FirstIndex(hist, hp, today_str)
        hist1 == IF i # 0 THEN [hist EXCEPT ![i] = entry] ELSE Append(hist, entry)
        hist2 == LastN(hist1, RetentionWindow)
    IN  [history |-> hist2, heap |-> Collect(hp, hist2, {entry})]

----------------------------------------------------------------------------
(* The metrics *)

\* round(): to the nearest integer, a tie to the even one, of num / den
RoundHalfEven(num, den) ==
    LET q == num \div den
        r == num % den
    IN  IF 2 * r < den THEN q
        ELSE IF 2 * r > den THEN q + 1
        ELSE IF q % 2 = 0 THEN q ELSE q + 1

total == Len(HABITS)

\* sum(1 for key, _, _ in HABITS if today_entry.get(key))
CountChecked(e) == Cardinality({k \in HabitKeys : e[k]})

\* variant: integer division, (checked_count // total) * 100
achievement_floor_div(count) == (count \div total) * 100

\* round((checked_count / total) * 100)
achievement_of(count) == RoundHalfEven(count * 100, total)

\* (df["achieved"] / total * 100).round(0).astype(int), one row
achievement_pct(e) == RoundHalfEven(CountChecked(e) * 100, total)

\* the two columns of df the chart is drawn from
ChartOf(hist, hp) ==
    [i \in 1..Len(hist) |->
        [date |-> strftime_md(hp[hist[i]]["date"]),
         achievement_pct |-> achievement_pct(hp[hist[i]])]]

----------------------------------------------------------------------------
(* The external calls *)

Chars == {" ", "a"}

RECURSIVE TextsOfLen(_)
TextsOfLen(n) ==
    IF n = 0 THEN {<<>>}
    ELSE {Append(t, c) : t \in TextsOfLen(n - 1), c \in Chars}

Texts == UNION {TextsOfLen(n) : n \in 0..MaxTextLen}

\* str.strip()
RECURSIVE lstrip(_)
lstrip(t) == IF t # <<>> /\ Head(t) = " " THEN lstrip(Tail(t)) ELSE t

RECURSIVE rstrip(_)
rstrip(t) ==
    IF t # <<>> /\ t[Len(t)] = " " THEN rstrip(SubSeq(t, 1, Len(t) - 1)) ELSE t

strip(t) == rstrip(lstrip(t))

Some(t) == [text |-> t]

\* what requests.get does: it raises, or answers with a status and a body
HttpOutcomes(bodies) ==
    {[raised |-> TRUE, status |-> 0, json |-> None]}
    \cup {[raised |-> FALSE, status |-> st, json |-> b] : st \in {200, 500}, b \in bodies}

safe_get_json(http) ==
    IF http.raised THEN None
    ELSE IF http.status # 200 THEN None
    ELSE http.json

\* bodies of the weather provider: which keys are there, and whether the numbers parse
WeatherBodies ==
    {[weather |-> w, main |-> m, parses |-> p] : w \in BOOLEAN, m \in BOOLEAN, p \in BOOLEAN}

get_weather(city, api_key, http) ==
    IF api_key = "" THEN None
    ELSE LET data == safe_get_json(http)
         IN  IF data = None THEN None
             ELSE IF ~data.weather \/ ~data.main THEN None
             ELSE IF ~data.parses THEN None
             ELSE [city |-> city, description |-> "desc"]

\* bodies of the dog provider: the status field, and whether the URL has a breed part
DogBodies ==
    {[status |-> s, breeds |-> b] : s \in {"success", "error"}, b \in BOOLEAN}

get_dog_image(http) ==
    LET data == safe_get_json(http)
    IN  IF data = None THEN None
        ELSE IF data.status # "success" THEN None
        ELSE IF ~data.breeds THEN None
        ELSE [url |-> "url", breed |-> "Breed"]

\* what one provider API does when called: it raises, or answers with None or a text
ApiOutcomes == {[raised |-> TRUE, text |-> None]}
               \cup {[raised |-> FALSE, text |-> None]}
               \cup {[raised |-> FALSE, text |-> Some(t)] : t \in Texts}

\* "if text:" -- None and the empty string are falsy
Truthy(text) == text # None /\ text.text # <<>>

\* variant: Chat Completions is tried before the Responses API
generate_report_chat_first(openai_api_key, sdk_ok, responses, chat) ==
    IF openai_api_key = "" THEN [result |-> None, calls |-> <<>>]
    ELSE IF ~sdk_ok THEN [result |-> None, calls |-> <<>>]
    ELSE IF ~chat.raised /\ Truthy(chat.text)
         THEN [result |-> Some(strip(chat.text.text)), calls |-> <<"chat">>]
    ELSE IF responses.raised \/ responses.text = None
         THEN [result |-> None, calls |-> <<"chat", "responses">>]
    ELSE [result |-> Some(strip(responses.text.text)), calls |-> <<"chat", "responses">>]

\* the result, and the APIs contacted in order
generate_report(openai_api_key, sdk_ok, responses, chat) ==
    IF openai_api_key = "" THEN [result |-> None, calls |-> <<>>]
    ELSE IF ~sdk_ok THEN [result |-> None, calls |-> <<>>]
    ELSE IF ~responses.raised /\ Truthy(responses.text)
         THEN [result |-> Some(strip(responses.text.text)), calls |-> <<"responses">>]
    ELSE IF chat.raised \/ chat.text = None
         THEN [result |-> None, calls |-> <<"responses", "chat">>]
    ELSE [result |-> Some(strip(chat.text.text)), calls |-> <<"responses", "chat">>]

----------------------------------------------------------------------------
(* The state machine *)

Init ==
    /\ clock = StartDay
    /\ pc = "init"
    /\ hasHistory = FALSE
    /\ history = <<>>
    /\ heap = <<>>
    /\ today_entry = 0
    /\ mood = 0
    /\ checked_count = -1
    /\ achievement = -1
    /\ chart = <<>>
    /\ generate = FALSE
    /\ last_weather = None
    /\ last_dog = None
    /\ last_report = None
    /\ rin = None
    /\ rout = None

\* midnight passes
Tick ==
    /\ clock < StartDay + MaxTicks
    /\ clock' = clock + 1
    /\ UNCHANGED <<pc, ledgerVars, localVars, lastVars, reportVars>>

\* first run of a session: "history" not in st.session_state
SeedSession ==
    /\ pc = "init"
    /\ ~hasHistory
    /\ LET demo == _init_demo_history(clock)
       IN  /\ history' = [i \in 1..Len(demo) |-> i]
           /\ heap' = [i \in 1..Len(demo) |-> demo[i]]
    /\ hasHistory' = TRUE
    /\ pc' = "get"
    /\ UNCHANGED <<clock, localVars, lastVars, reportVars>>

\* a later run: the session state is kept
ResumeSession ==
    /\ pc = "init"
    /\ hasHistory
    /\ pc' = "get"
    /\ UNCHANGED <<clock, ledgerVars, localVars, lastVars, reportVars>>

GetTodayEntry ==
    /\ pc = "get"
    /\ LET r == _get_today_entry(history, heap, isoformat(clock))
       IN  /\ history' = r.history
           /\ heap' = r.heap
           /\ today_entry' = r.entry
    /\ pc' = "widgets"
    /\ UNCHANGED <<clock, hasHistory, mood, checked_count, achievement, chart,
                   generate, lastVars, reportVars>>

\* the checkboxes the user may have ticked, and the slider positions
CheckChoices == {[i \in 1..Len(HABITS) |-> i <= k] : k \in 0..Len(HABITS)}
MoodChoices == {MoodMin, MoodMax}
CityChoices == {CITIES[1]}
KeyChoices == {"", "key"}

\* everything the three external calls can hand back
WeatherResults(city) ==
    {get_weather(city, k, h) : k \in KeyChoices, h \in HttpOutcomes(WeatherBodies)}
DogResults == {get_dog_image(h) : h \in HttpOutcomes(DogBodies)}
ReportResults ==
    {generate_report(k, sdk_ok, responses, chat).result :
        k \in KeyChoices, sdk_ok \in BOOLEAN, responses \in ApiOutcomes, chat \in ApiOutcomes}

\* the checkboxes and the slider write their values into today_entry
Widgets ==
    /\ pc = "widgets"
    /\ \E checks \in CheckChoices, m \in MoodChoices :
          /\ heap' = [heap EXCEPT ![today_entry] =
                        [f \in Fields |->
                            IF f \in HabitKeys THEN checks[HabitIndex(f)]
                            ELSE IF f = "mood" THEN m
                            ELSE heap[today_entry][f]]]
          /\ mood' = m
    /\ pc' = "save"
    /\ UNCHANGED <<clock, hasHistory, history, today_entry, checked_count, achievement,
                   chart, generate, lastVars, reportVars>>

SaveToday ==
    /\ pc = "save"
    /\ LET r == _save_today(history, heap, today_entry, isoformat(clock))
       IN  /\ history' = r.history
           /\ heap' = r.heap
    /\ pc' = "metrics"
    /\ UNCHANGED <<clock, hasHistory, localVars, lastVars, reportVars>>

Metrics ==
    /\ pc = "metrics"
    /\ checked_count' = CountChecked(heap[today_entry])
    /\ achievement' = achievement_of(checked_count')
    /\ chart' = ChartOf(history, heap)
    /\ pc' = "button"
    /\ UNCHANGED <<clock, ledgerVars, today_entry, mood, generate, lastVars, reportVars>>

\* st.button: pressed or not
Button ==
    /\ pc = "button"
    /\ generate' \in BOOLEAN
    /\ pc' = "generate"
    /\ UNCHANGED <<clock, ledgerVars, today_entry, mood, checked_count, achievement,
                   chart, lastVars, reportVars>>

\* variant: the block saves today's entry once more
GenerateBlock_resaving ==
    /\ pc = "generate"
    /\ IF generate
       THEN /\ \E city \in CityChoices :
               \E weather \in WeatherResults(city), dog \in DogResults, report \in ReportResults :
                   /\ last_weather' = weather
                   /\ last_dog' = dog
                   /\ last_report' = report
            /\ history' = LastN(Append(history, today_entry), RetentionWindow)
            /\ heap' = Collect(heap, history', {today_entry})
       ELSE UNCHANGED <<lastVars, history, heap>>
    /\ pc' = "display"
    /\ UNCHANGED <<clock, hasHistory, localVars, reportVars>>

\* "if generate:" with its body
GenerateBlock ==
    /\ pc = "generate"
    /\ IF generate
       THEN \E city \in CityChoices :
            \E weather \in WeatherResults(city), dog \in DogResults, report \in ReportResults :
                /\ last_weather' = weather
                /\ last_dog' = dog
                /\ last_report' = report
       ELSE UNCHANGED lastVars
    /\ pc' = "display"
    /\ UNCHANGED <<clock, ledgerVars, localVars, reportVars>>

\* the cards, the report and the share text are drawn; the run ends
Display ==
    /\ pc = "display"
    /\ pc' = "init"
    /\ today_entry' = 0
    /\ mood' = 0
    /\ checked_count' = -1
    /\ achievement' = -1
    /\ chart' = <<>>
    /\ generate' = FALSE
    /\ UNCHANGED <<clock, ledgerVars, lastVars, reportVars>>

Next ==
    \/ Tick
    \/ SeedSession
    \/ ResumeSession
    \/ GetTodayEntry
    \/ Widgets
    \/ SaveToday
    \/ Metrics
    \/ Button
    \/ GenerateBlock
    \/ Display

Spec == Init /\ [][Next]_vars

----------------------------------------------------------------------------
(* generate_report on its own: every argument and provider behaviour *)

ReportInputs ==
    [openai_api_key : KeyChoices, sdk_ok : BOOLEAN,
     responses : ApiOutcomes, chat : ApiOutcomes]

InitReport ==
    /\ clock = StartDay
    /\ pc = "report"
    /\ hasHistory = FALSE
    /\ history = <<>>
    /\ heap = <<>>
    /\ today_entry = 0
    /\ mood = 0
    /\ checked_count = -1
    /\ achievement = -1
    /\ chart = <<>>
    /\ generate = TRUE
    /\ last_weather = None
    /\ last_dog = None
    /\ last_report = None
    /\ rin \in ReportInputs
    /\ rout = None

CallGenerateReport ==
    /\ pc = "report"
    /\ rout' = generate_report(rin.openai_api_key, rin.sdk_ok, rin.responses, rin.chat)
    /\ last_report' = rout'.result
    /\ pc' = "reported"
    /\ UNCHANGED <<clock, ledgerVars, localVars, last_weather, last_dog, rin>>

NextReport == CallGenerateReport

SpecReport == InitReport /\ [][NextReport]_vars

----------------------------------------------------------------------------
(* Properties of the ledger *)

DateAt(i) == heap[history[i]]["date"]

\* C1: after seeding, in every state reachable by render cycles with the
\* calendar free to advance between any two reads of date.today(), the
\* ledger holds at most one entry per calendar date.
NoDuplicateDates ==
    hasHistory =>
        \A i, j \in 1..Len(history) : i # j => DateAt(i) # DateAt(j)

\* C2: once seeded, the ledger always holds exactly 7 entries (and so never
\* more than the retention window), after every lookup and every save.
LengthIsSeven ==
    hasHistory => Len(history) = 7

\* the save appended after midnight and the window was trimmed back to 7
SavedAcrossMidnight ==
    /\ pc = "metrics"
    /\ Len(history) = 7
    /\ history[6] = history[7]
    /\ DateAt(7) # isoformat(clock)

\* C3: whenever an entry is appended to the full ledger (by _get_today_entry
\* for a date not yet present, or by the append branch of _save_today), the
\* front entry alone is evicted, the other six keep their order and content,
\* and the appended entry is last: it is never the one removed.
AppendEvictsFront ==
    [][ /\ ( /\ pc = "get" /\ pc' = "widgets"
             /\ Len(history) = 7
             /\ FirstIndex(history, heap, isoformat(clock)) = 0 )
           => /\ history' = Tail(history) \o <<today_entry'>>
              /\ today_entry' \notin Range(history)
              /\ heap'[today_entry']["date"] = isoformat(clock)
              /\ \A i \in 2..7 : heap'[history[i]] = heap[history[i]]
        /\ ( /\ pc = "save" /\ pc' = "metrics"
             /\ Len(history) = 7
             /\ FirstIndex(history, heap, isoformat(clock)) = 0 )
           => /\ history' = Tail(history) \o <<today_entry>>
              /\ \A i \in 2..7 : heap'[history[i]] = heap[history[i]]
      ]_vars

\* the first lookup on a new day has pushed the oldest demo entry out
OldestDemoEvicted ==
    /\ pc = "widgets"
    /\ history = <<2, 3, 4, 5, 6, 7, 8>>
    /\ today_entry = 8

\* C4: _save_today is idempotent: wherever it is about to be called, calling
\* it twice in succession leaves the ledger as calling it once does.
SaveIdempotent ==
    pc = "save" =>
        LET t == isoformat(clock)
            once == _save_today(history, heap, today_entry, t)
            twice == _save_today(once.history, once.heap, today_entry, t)
        IN  /\ twice.history = once.history
            /\ twice.heap = once.heap

BlankEntry(d) ==
    [date |-> d, mood |-> 6, wake |-> FALSE, water |-> FALSE, study |-> FALSE,
     workout |-> FALSE, sleep |-> FALSE]

\* C5: _get_today_entry with today's date absent appends exactly one new
\* entry (that date, all five habits False, mood 6) and returns it; with the
\* date present it returns the entry found and changes nothing; and a second
\* call on the same date returns the same entry and changes nothing.
FindOrCreate ==
    [][ (pc = "get" /\ pc' = "widgets") =>
          LET t == isoformat(clock)
              i == FirstIndex(history, heap, t)
              again == _get_today_entry(history', heap', t)
          IN  /\ i = 0 =>
                    /\ today_entry' \notin Range(history)
                    /\ history' = LastN(Append(history, today_entry'), 7)
                    /\ Range(history') \ Range(history) = {today_entry'}
                    /\ heap'[today_entry'] = BlankEntry(t)
                    /\ \A r \in Range(history') \ {today_entry'} : heap'[r] = heap[r]
              /\ i # 0 =>
                    /\ history' = history
                    /\ heap' = heap
                    /\ today_entry' = history[i]
                    /\ heap[today_entry']["date"] = t
              /\ again.entry = today_entry'
              /\ again.history = history'
              /\ again.heap = heap'
      ]_vars

\* a lookup has just created today's entry
CreatedToday ==
    /\ pc = "widgets"
    /\ today_entry \notin 1..7
    /\ heap[today_entry] = BlankEntry(isoformat(clock))
    /\ Cardinality({i \in 1..Len(history) : history[i] = today_entry}) = 1

Twenty(k) == 20 * k

\* C6: an entry with k of the 5 habits true has achievement percentage 20*k,
\* one of 0, 20, 40, 60, 80, 100, both as today's summary value and as the
\* chart series value, and the series value of today's entry is the summary
\* value.
PercentCorrect ==
    pc \in {"button", "generate", "display"} =>
        /\ checked_count \in 0..5
        /\ checked_count = Cardinality({k \in HabitKeys : heap[today_entry][k]})
        /\ achievement = Twenty(checked_count)
        /\ achievement \in {0, 20, 40, 60, 80, 100}
        /\ Len(chart) = Len(history)
        /\ \A i \in 1..Len(history) :
              /\ chart[i].achievement_pct =
                    Twenty(Cardinality({k \in HabitKeys : heap[history[i]][k]}))
              /\ history[i] = today_entry => chart[i].achievement_pct = achievement
        /\ \E i \in 1..Len(history) : history[i] = today_entry

\* three of five habits are ticked today and the summary reads 60
ThreeOfFive ==
    /\ pc = "button"
    /\ checked_count = 3
    /\ achievement = 60
    /\ chart[Len(chart)].achievement_pct = 60

ExpectedChecks == <<
    <<TRUE, TRUE, FALSE, FALSE, TRUE>>,
    <<TRUE, FALSE, TRUE, FALSE, TRUE>>,
    <<TRUE, TRUE, TRUE, FALSE, FALSE>>,
    <<FALSE, TRUE, TRUE, TRUE, FALSE>>,
    <<TRUE, TRUE, TRUE, TRUE, FALSE>>,
    <<FALSE, FALSE, TRUE, TRUE, TRUE>> >>

ExpectedMoods == <<6, 7, 5, 8, 9, 7>>

ExpectedDemo(today, i) ==
    [date |-> isoformat(today - (7 - i)), mood |-> ExpectedMoods[i],
     wake |-> ExpectedChecks[i][1], water |-> ExpectedChecks[i][2],
     study |-> ExpectedChecks[i][3], workout |-> ExpectedChecks[i][4],
     sleep |-> ExpectedChecks[i][5]]

\* C7: seeding depends on today's date alone: it yields exactly 7 entries,
\* the first six dated today-6 .. today-1 in that order with the rows of the
\* pattern table in table order (moods 6,7,5,8,9,7), the seventh dated today
\* with all five habits False and mood 6.
SeedIsFixedTable ==
    [][ (pc = "init" /\ ~hasHistory /\ hasHistory') =>
          /\ Len(history') = 7
          /\ \A i \in 1..6 : heap'[history'[i]] = ExpectedDemo(clock, i)
          /\ heap'[history'[7]] = BlankEntry(isoformat(clock))
          /\ \A i, j \in 1..7 : i # j => history'[i] # history'[j]
      ]_vars

\* the session has just been seeded on the second possible day
JustSeeded ==
    /\ pc = "get"
    /\ today_entry = 0
    /\ clock = StartDay + 1
    /\ history = <<1, 2, 3, 4, 5, 6, 7>>
    /\ heap[1]["date"] = isoformat(StartDay - 5)
    /\ heap[5]["mood"] = 9
    /\ last_report = None

\* C8: with a calendar that never goes back, the ledger is ordered by date
\* ascending, and from the save on today's entry is its last element.
DateAscending ==
    hasHistory =>
        /\ \A i \in 1..(Len(history) - 1) : DateLeq(DateAt(i), DateAt(i + 1))
        /\ pc \in {"metrics", "button", "generate", "display"} =>
              history[Len(history)] = today_entry

\* the ledger runs across a year end
AcrossYearEnd ==
    /\ pc = "metrics"
    /\ Len(history) = 7
    /\ DateAt(6)[1] < DateAt(7)[1]
    /\ DateAt(7) = isoformat(clock)

\* C9: the generate block never changes the ledger, whatever the weather
\* fetch, the dog fetch and the report generation return; it writes only
\* last_weather, last_dog and last_report, and with the button not pressed
\* those three keep their values through the whole run.
ReportLeavesLedger ==
    [][ /\ (pc = "generate" /\ pc' = "display") =>
              /\ UNCHANGED <<ledgerVars, localVars, clock>>
              /\ ~generate => UNCHANGED lastVars
        /\ (lastVars' # lastVars) => (pc = "generate" /\ generate)
      ]_vars

\* a pressed button has stored a report and a dog, with no weather
ReportStored ==
    /\ pc = "display"
    /\ generate
    /\ last_report # None
    /\ last_dog # None
    /\ last_weather = None
    /\ Len(history) = 7

====
